---- MODULE Spec2Model ----
(***************************************************************************)
(* Model of the Hyperwave voice console: the VoiceAssistant session state  *)
(* machine (components/voice-assistant), the useAudioRecorder hook, the    *)
(* audio base64 helpers, the Home page state and the /api/gemini/live      *)
(* route.                                                                  *)
(*                                                                         *)
(* Text is modelled as a sequence of tokens: a token is either a white-    *)
(* space character (" " or "\n") or a run of non-blank characters, so that *)
(* String.prototype.trim, concatenation and join are computed, not assumed.*)
(***************************************************************************)
EXTENDS Integers, Sequences, FiniteSets, TLC

VARIABLES
  \* ---- Home (page) state
  modes,            \* AssistantMode[]                       (useState)
  activeModeId,     \* string                                (useState)
  connectors,       \* Connector[]                           (useState)
  designProfile,    \* DesignProfile                         (useState)
  storage,          \* localStorage item "agentic-voice-studio-state@1"
  page,             \* whether the page is loaded ("open") or not ("closed")
  warnings,         \* what Home has written with console.warn since the page was loaded
  storageFull,      \* whether localStorage.setItem throws (quota exceeded, writes refused)
  \* ---- VoiceAssistant state
  messages,         \* ChatMessage[]                         (useState)
  status,           \* AssistantStatus                       (useState)
  statusVia,        \* the status the step just taken set before its final one
  input,            \* text of the input box                 (useState)
  errorMessage,     \* string | null                         (useState)
  autoSpeak,        \* boolean                               (useState)
  nextId,           \* source of fresh message ids (createMessageId)
  resets,           \* how many times the persona effect has replaced messages
  \* ---- useAudioRecorder state
  isRecording,      \* boolean                               (useState)
  permissionError,  \* string | null                         (useState)
  recorders,        \* every MediaRecorder object constructed so far
  recorderRef,      \* mediaRecorderRef.current (index into recorders, 0 = null)
  streamRef,        \* mediaStreamRef.current   (stream id, 0 = null)
  liveStreams,      \* streams whose tracks have not been stopped
  chunks,           \* chunksRef.current (sequence of byte sequences)
  nextStream,       \* source of fresh MediaStream ids (getUserMedia)
  browser,          \* what the browser supports ("full", "no-mic", "no-opus")
  \* ---- asynchronous work in flight
  startTasks,       \* startRecording calls awaiting getUserMedia
  stopTasks,        \* handleStopRecording calls awaiting finalization
  inflight,         \* fetch("/api/gemini/live") calls awaiting a response
  nextTask,         \* source of fresh task ids
  delivered,        \* the outcome a fetch delivered in the step just taken, if any
  \* ---- audio helpers exercised on their own
  audioPc, audioBytes, audioText, audioBack,
  \* ---- route handler exercised on its own
  routePc, routeReq, routeEnv, routeResp

homeVars     == <<modes, activeModeId, connectors, designProfile, storage>>
sessionVars  == <<messages, status, input, errorMessage, nextId, resets>>
recorderVars == <<isRecording, permissionError, recorders, recorderRef,
                  streamRef, liveStreams, chunks, nextStream, browser>>
taskVars     == <<startTasks, stopTasks, inflight, nextTask>>
audioVars    == <<audioPc, audioBytes, audioText, audioBack>>
routeVars    == <<routePc, routeReq, routeEnv, routeResp>>
vars == <<homeVars, page, warnings, storageFull, sessionVars, statusVia, autoSpeak, recorderVars, taskVars, delivered,
          audioVars, routeVars>>

(***************************************************************************)
(* Generic helpers                                                         *)
(***************************************************************************)
Null == "<null>"

\* no fetch delivered anything in the step just taken
NoDelivery == [q |-> [tid |-> 0], r |-> [status |-> 0], speech |-> "quiet"]

Min(a, b) == IF a < b THEN a ELSE b
Max(a, b) == IF a > b THEN a ELSE b

Has(r, f) == f \in DOMAIN r

RECURSIVE Concat(_)
Concat(ss) == IF ss = <<>> THEN <<>> ELSE Head(ss) \o Concat(Tail(ss))

MapSeq(F(_), s) == [i \in 1..Len(s) |-> F(s[i])]

\* Array.prototype.slice(start, end) for 0 <= start, clamped to the length
SliceFromTo(s, start, end) == SubSeq(s, start + 1, Min(end, Len(s)))

\* Array.prototype.slice(-n): the last n elements (all when fewer)
SliceLastBad(s, n) == SubSeq(s, 1, Min(n, Len(s)))
SliceLast(s, n) == SubSeq(s, Max(Len(s) - n, 0) + 1, Len(s))

\* Array.prototype.join(sep) on an array of texts
RECURSIVE Join(_, _)
Join(ss, sep) ==
  IF ss = <<>> THEN <<>>
  ELSE IF Len(ss) = 1 THEN ss[1]
  ELSE ss[1] \o sep \o Join(Tail(ss), sep)

\* the separators " \u00B7 " and " \u2022 " of the source, in ASCII
MiddleDot == " (middle dot) "
Bullet == " (bullet) "

IsSpace(tok) == tok \in {" ", "\n"}

RECURSIVE TrimStart(_)
TrimStart(t) ==
  IF t # <<>> /\ IsSpace(Head(t)) THEN TrimStart(Tail(t)) ELSE t

RECURSIVE TrimEnd(_)
TrimEnd(t) ==
  IF t # <<>> /\ IsSpace(t[Len(t)]) THEN TrimEnd(SubSeq(t, 1, Len(t) - 1)) ELSE t

\* String.prototype.trim
Trim(t) == TrimEnd(TrimStart(t))

(***************************************************************************)
(* lib/audio: blobToBase64 / base64ToBlob                                  *)
(***************************************************************************)
Alphabet ==
  << "A","B","C","D","E","F","G","H","I","J","K","L","M","N","O","P",
     "Q","R","S","T","U","V","W","X","Y","Z","a","b","c","d","e","f",
     "g","h","i","j","k","l","m","n","o","p","q","r","s","t","u","v",
     "w","x","y","z","0","1","2","3","4","5","6","7","8","9","+","/" >>

Pad == "="

Sextet(c) == (CHOOSE i \in 1..64 : Alphabet[i] = c) - 1

\* btoa: binary string (a sequence of char codes 0..255) to base64 text
RECURSIVE Btoa(_)
Btoa(bin) ==
  IF Len(bin) = 0 THEN <<>>
  ELSE IF Len(bin) = 1 THEN
    << Alphabet[(bin[1] \div 4) + 1],
       Alphabet[((bin[1] % 4) * 16) + 1], Pad, Pad >>
  ELSE IF Len(bin) = 2 THEN
    << Alphabet[(bin[1] \div 4) + 1],
       Alphabet[((bin[1] % 4) * 16 + (bin[2] \div 16)) + 1],
       Alphabet[((bin[2] % 16) * 4) + 1], Pad >>
  ELSE
    << Alphabet[(bin[1] \div 4) + 1],
       Alphabet[((bin[1] % 4) * 16 + (bin[2] \div 16)) + 1],
       Alphabet[((bin[2] % 16) * 4 + (bin[3] \div 64)) + 1],
       Alphabet[(bin[3] % 64) + 1] >> \o Btoa(SubSeq(bin, 4, Len(bin)))

\* atob: base64 text to binary string
RECURSIVE Atob(_)
Atob(b64) ==
  IF Len(b64) = 0 THEN <<>>
  ELSE
    LET a == Sextet(b64[1])
        b == Sextet(b64[2])
    IN  IF b64[3] = Pad THEN << a * 4 + (b \div 16) >>
        ELSE LET c == Sextet(b64[3])
             IN  IF b64[4] = Pad
                 THEN << a * 4 + (b \div 16), (b % 16) * 16 + (c \div 4) >>
                 ELSE << a * 4 + (b \div 16), (b % 16) * 16 + (c \div 4),
                         (c % 4) * 64 + Sextet(b64[4]) >>
                      \o Atob(SubSeq(b64, 5, Len(b64)))

\* String.fromCharCode(byte) for each byte, appended to `binary`
FromCharCodes(bytes) == [i \in 1..Len(bytes) |-> bytes[i]]

\* bytes[i] = binary.charCodeAt(i) stored into a Uint8Array
ToUint8Bad(bin) == [i \in 1..Len(bin) |-> bin[i] % 128]
ToUint8(bin) == [i \in 1..Len(bin) |-> bin[i] % 256]

blobToBase64(bytes) == Btoa(FromCharCodes(bytes))

base64ToBlob(b64) == ToUint8(Atob(b64))

(***************************************************************************)
(* app/api/gemini/live/route.ts                                            *)
(***************************************************************************)
KeyMissingError ==
  "GEMINI_API_KEY is not configured. Provide an API key to enable live interactions."
ModeRequiredError == "modeId is required."
EmptySubmissionError ==
  "Submit either audioBase64 or prompt content for Gemini Live to process."
UpstreamFallbackError == "Gemini Live request failed unexpectedly."

\* JavaScript truthiness of an optional text field of the payload
Truthy(p, f) == Has(p, f) /\ p[f] # <<>>

\* !payload.modeId is false only for a present, non-empty id
HasModeId(p) == Has(p, "modeId") /\ p.modeId # ""

\* payload.connectors?.filter(status === "active").map(name MiddleDot caps.slice(0,3).join(", ")) ?? []
IsActiveBad(c) == c.status # "draft"
IsActive(c) == c.status = "active"

CapabilitySlice(caps) == SliceFromTo(caps, 0, 3)

FormatConnector(c) ==
  <<c.name, MiddleDot>> \o Join(MapSeq(LAMBDA cap : <<cap>>, CapabilitySlice(c.capabilities)), <<", ">>)

ConnectorContext(p) ==
  IF Has(p, "connectors")
  THEN MapSeq(FormatConnector, SelectSeq(p.connectors, IsActive))
  ELSE <<>>

\* payload.history?.filter(text && text.trim().length > 0).map({role, parts}) ?? []
HistoryContents(p) ==
  IF Has(p, "history")
  THEN MapSeq(LAMBDA e : [role |-> e.role, parts |-> <<[text |-> e.text]>>],
              SelectSeq(p.history, LAMBDA e : e.text # <<>> /\ Len(Trim(e.text)) > 0))
  ELSE <<>>

UserParts(p) ==
  (IF Has(p, "prompt") /\ Trim(p.prompt) # <<>>
     THEN <<[text |-> Trim(p.prompt)]>> ELSE <<>>)
  \o (IF Truthy(p, "audioBase64")
        THEN <<[inline_data |-> p.audioBase64]>> ELSE <<>>)

UpstreamBody(p) ==
  [contents |-> HistoryContents(p) \o <<[role |-> "user", parts |-> UserParts(p)]>>]

\* parts.map(part => typeof part.text === "string" ? part.text : "").join("\n").trim()
CandidateText(parts) ==
  Trim(Join(MapSeq(LAMBDA part : IF Has(part, "text") THEN part.text ELSE <<>>, parts),
            <<"\n">>))

\* data?.error?.message ?? data?.error ?? "Gemini Live request failed unexpectedly."
UpstreamErrorMessage(up) ==
  IF up.errKind \in {"message", "string"} THEN up.err ELSE UpstreamFallbackError

\* POST: env.apiKey says whether GEMINI_API_KEY is set, `up` is what the
\* generative-language API answers when it is called.  `forwarded` lists the
\* bodies sent upstream by this call (none or one).
KeyMissingBad(env) == FALSE
KeyMissing(env) == ~env.apiKey

\* a request whose body is not JSON: request.json() throws, and the
\* framework answers the unhandled rejection
Malformed == [malformed |-> TRUE]
Unhandled == [status |-> 500, body |-> [html |-> "Internal Server Error"], forwarded |-> <<>>]

POST(p, env, up) ==
  IF KeyMissing(env) THEN
    [status |-> 500, body |-> [error |-> KeyMissingError], forwarded |-> <<>>]
  ELSE IF Has(p, "malformed") THEN
    Unhandled
  ELSE IF ~HasModeId(p) THEN
    [status |-> 400, body |-> [error |-> ModeRequiredError], forwarded |-> <<>>]
  ELSE IF ~Truthy(p, "audioBase64") /\ ~Truthy(p, "prompt") THEN
    [status |-> 400, body |-> [error |-> EmptySubmissionError], forwarded |-> <<>>]
  ELSE IF ~up.ok THEN
    [status |-> up.status, body |-> [error |-> UpstreamErrorMessage(up)],
     forwarded |-> <<UpstreamBody(p)>>]
  ELSE
    [status |-> 200,
     body |-> [text |-> CandidateText(up.parts),
               connectorContext |-> ConnectorContext(p),
               raw |-> up.parts],
     forwarded |-> <<UpstreamBody(p)>>]

\* What the generative-language API may answer to a request of the session
UpstreamOutcomes ==
  { [ok |-> TRUE,  status |-> 200, parts |-> <<[text |-> <<" ", "hi there", "\n">>]>>],
    [ok |-> TRUE,  status |-> 200, parts |-> <<>>],
    [ok |-> FALSE, status |-> 500, errKind |-> "message", err |-> "upstream down"] }

\* ... and to a request made to the route directly
RouteUpstreamOutcomes ==
  UpstreamOutcomes \cup
  { [ok |-> TRUE,  status |-> 200,
     parts |-> <<[text |-> <<"hi">>], [inline_data |-> <<>>], [text |-> <<"there">>]>>],
    [ok |-> FALSE, status |-> 503, errKind |-> "string", err |-> "quota exceeded"],
    [ok |-> FALSE, status |-> 503, errKind |-> "none",   err |-> ""] }

RouteEnvs == { [apiKey |-> TRUE], [apiKey |-> FALSE] }

(***************************************************************************)
(* app/api/design/route.ts                                                 *)
(***************************************************************************)
ProfileRequiredError == "Design profile is required."
DesignFallbackError == "Design suggestion request failed."
ParseWarning == "Gemini response was not valid JSON. Returning fallback."

\* colours are sequences of characters
HexChars == <<"0", "1", "2", "3", "4", "5", "6", "7", "8", "9",
              "a", "b", "c", "d", "e", "f">>
UpperHexChars == <<"0", "1", "2", "3", "4", "5", "6", "7", "8", "9",
                   "A", "B", "C", "D", "E", "F">>

IsHexChar(c) == \E i \in 1..16 : HexChars[i] = c \/ UpperHexChars[i] = c
HexCharValue(c) == (CHOOSE i \in 1..16 : HexChars[i] = c \/ UpperHexChars[i] = c) - 1

\* parseInt(text, 16): the value of the longest prefix of hex digits; NaN,
\* which the shifts of hexToRgb turn into 0, when there is none
RECURSIVE ParseHexFrom(_, _)
ParseHexFrom(text, acc) ==
  IF text = <<>> \/ ~IsHexChar(Head(text)) THEN acc
  ELSE ParseHexFrom(Tail(text), acc * 16 + HexCharValue(Head(text)))

ParseInt16(text) == ParseHexFrom(text, 0)

\* hex.replace("#", ""): the first "#" only
RECURSIVE StripHash(_)
StripHash(hex) ==
  IF hex = <<>> THEN <<>>
  ELSE IF Head(hex) = "#" THEN Tail(hex)
  ELSE <<Head(hex)>> \o StripHash(Tail(hex))

\* hexToRgb throws unless 3 or 6 characters are left
HexOk(hex) == Len(StripHash(hex)) \in {3, 6}

hexToRgb(hex) ==
  LET parsed == StripHash(hex)
      normalized == IF Len(parsed) = 3
                    THEN <<parsed[1], parsed[1], parsed[2], parsed[2], parsed[3], parsed[3]>>
                    ELSE parsed
      value == ParseInt16(normalized)
  IN  [r |-> (value \div 65536) % 256, g |-> (value \div 256) % 256, b |-> value % 256]

clamp(value, min, max) == Min(Max(value, min), max)

\* value.toString(16).padStart(2, "0"), upper case
HexByte(v) == <<UpperHexChars[(v \div 16) + 1], UpperHexChars[(v % 16) + 1]>>

rgbToHex(c) == <<"#">> \o HexByte(c.r) \o HexByte(c.g) \o HexByte(c.b)

\* Math.round(v * num / den) for v >= 0
RoundScaled(v, num, den) == (2 * v * num + den) \div (2 * den)

Scale(color, num, den) ==
  IF ~HexOk(color) THEN color
  ELSE LET c == hexToRgb(color)
       IN  rgbToHex([r |-> clamp(RoundScaled(c.r, num, den), 0, 255),
                     g |-> clamp(RoundScaled(c.g, num, den), 0, 255),
                     b |-> clamp(RoundScaled(c.b, num, den), 0, 255)])

shade(color) == Scale(color, 85, 100)
tint(color) == Scale(color, 110, 100)

SuggestionFields == {"summary", "palette", "layout", "enhancements"}

fallbackSuggestion(profile) ==
  [json |-> "object", fields |-> SuggestionFields,
   summary |-> "Dial up the aurora energy with a cooler teal sweep and sculpted frosted surfaces.",
   palette |-> [primary |-> shade(profile.primaryColor),
                accent |-> tint(profile.accentColor)],
   layout |-> [density |-> "balanced", cornerStyle |-> "ultra-rounded",
               shadowStyle |-> "vivid"]]

\* texts the model may answer with, as sequences of pieces
SuggestionText == <<"{\"summary\":\"Cooler\",\"palette\":{},", "\"layout\":{},\"enhancements\":[]}">>
GeminiSuggestion ==
  [json |-> "object", fields |-> SuggestionFields,
   summary |-> "Cooler", palette |-> [primary |-> <<>>, accent |-> <<>>],
   layout |-> [density |-> "", cornerStyle |-> "", shadowStyle |-> ""]]

\* JSON.parse on the texts of the model: the parsed value, or thrown
JSONParse(text) ==
  CASE text = SuggestionText -> [thrown |-> FALSE, value |-> GeminiSuggestion]
    [] text = <<"{}">> -> [thrown |-> FALSE, value |-> [json |-> "object", fields |-> {}]]
    [] text = <<"42">> -> [thrown |-> FALSE, value |-> [json |-> "number", fields |-> {}]]
    [] text = <<"{\"error\":\"overloaded\"}">> ->
         [thrown |-> FALSE, value |-> [json |-> "object", fields |-> {"error"}]]
    [] OTHER -> [thrown |-> TRUE]

\* candidate?.content?.parts?.[0]?.text ?? parts?.map(part => part.text ?? "").join("") ?? ""
RawText(up) ==
  IF ~Has(up, "parts") THEN <<>>
  ELSE IF up.parts # <<>> /\ Has(up.parts[1], "text") THEN up.parts[1].text
  ELSE Concat(MapSeq(LAMBDA part : IF Has(part, "text") THEN part.text ELSE <<>>, up.parts))

DesignErrorMessage(up) ==
  IF up.errKind \in {"message", "string"} THEN up.err ELSE DesignFallbackError

\* POST of the design route: env.apiKey says whether GEMINI_API_KEY is set,
\* env.upstream is what the generative-language API answers when called
DesignPOST(p, env) ==
  IF Has(p, "malformed") THEN Unhandled
  ELSE IF ~Has(p, "profile") THEN
    [status |-> 400, body |-> [error |-> ProfileRequiredError], forwarded |-> <<>>]
  ELSE IF KeyMissing(env) THEN
    [status |-> 200,
     body |-> [suggestion |-> fallbackSuggestion(p.profile), source |-> "fallback"],
     forwarded |-> <<>>]
  ELSE IF ~env.upstream.ok THEN
    [status |-> env.upstream.status, body |-> [error |-> DesignErrorMessage(env.upstream)],
     forwarded |-> <<p.profile>>]
  ELSE LET parsed == JSONParse(RawText(env.upstream))
       IN  IF parsed.thrown
           THEN [status |-> 200,
                 body |-> [suggestion |-> fallbackSuggestion(p.profile),
                           source |-> "fallback", warning |-> ParseWarning],
                 forwarded |-> <<p.profile>>]
           ELSE [status |-> 200,
                 body |-> [suggestion |-> parsed.value, source |-> "gemini"],
                 forwarded |-> <<p.profile>>]

(***************************************************************************)
(* lib/defaults.ts                                                         *)
(***************************************************************************)
defaultModes ==
  << [id |-> "aether", name |-> "Aether Composer",
      tone |-> "Visionary, confident, descriptive yet succinct.",
      defaultOpeners |-> << <<"Where should we take the interface next?">>,
                            <<"Let's evolve the surfaces around your core flows.">> >>],
     [id |-> "sentience", name |-> "Sentience Navigator",
      tone |-> "Analytical, pragmatic, system-level clarity.",
      defaultOpeners |-> << <<"Which capability graph should we expand?">>,
                            <<"Ready to onboard a new integration-what's the target API?">> >>],
     [id |-> "lumen", name |-> "Lumen Caretaker",
      tone |-> "Empathetic, precise, human-centered.",
      defaultOpeners |-> << <<"Let's orchestrate the next voice path together.">>,
                            <<"Who are we guiding, and what tone should land?">> >>] >>

defaultConnectors ==
  << [id |-> "mcp-atlas", name |-> "Atlas Research Graph", status |-> "active",
      capabilities |-> <<"semantic-search", "pattern-mining", "snapshot-exports">>,
      lastSync |-> "5m ago"],
     [id |-> "api-journey", name |-> "Journey Analytics API", status |-> "draft",
      capabilities |-> <<"heatmaps", "drop-off-analysis", "persona-clustering">>,
      lastSync |-> "1h ago"],
     [id |-> "datasource-synth", name |-> "Synth Feedback Lake", status |-> "paused",
      capabilities |-> <<"nlp", "sentiment", "topic-mapping">>,
      lastSync |-> "12h ago"] >>

defaultDesignProfile ==
  [id |-> "hyperwave",
   primaryColor |-> <<"#", "6", "c", "4", "a", "f", "e">>,
   accentColor |-> <<"#", "0", "d", "d", "4", "f", "f">>,
   blurIntensity |-> 24,
   layout |-> [density |-> "balanced", cornerStyle |-> "ultra-rounded",
               shadowStyle |-> "vivid"]]

(***************************************************************************)
(* app/page.tsx: the stored studio state                                   *)
(***************************************************************************)
\* JSON.stringify(payload): the text kept in localStorage
Stringify(payload) == [text |-> "json", value |-> payload]

\* what localStorage may hold besides the texts written by the page:
\* nothing, the empty text, a text that is not JSON, and JSON texts of
\* other values
MissingItem == [missing |-> TRUE]
EmptyText == [text |-> ""]
CorruptText == [text |-> "{\"modes\":[{\"id\""]
NoState == [json |-> "null"]
NullText == [text |-> "json", value |-> NoState]
OtherObjectText == [text |-> "json", value |-> [version |-> 2]]

\* loadPersistedState: null when the item is missing or empty or when
\* JSON.parse throws, the parsed value otherwise
StoredStateWarning == "Failed to parse stored studio state"

\* JSON.parse(raw) throws
ParseThrows(raw) == ~Has(raw, "missing") /\ raw.text # "" /\ raw.text # "json"

\* what loadPersistedState writes with console.warn
LoadWarnings(raw) == IF ParseThrows(raw) THEN {StoredStateWarning} ELSE {}

loadPersistedStateBad(raw) ==
  IF Has(raw, "value") THEN raw.value ELSE [activeModeId |-> "mode-gone"]
loadPersistedState(raw) ==
  IF Has(raw, "missing") \/ raw.text = "" THEN NoState
  ELSE IF ParseThrows(raw) THEN NoState
  ELSE raw.value

\* persisted?.field is defined
Persists(persisted, f) == Has(persisted, f)

\* the useState initialisers of Home
InitialModes(persisted) ==
  IF Persists(persisted, "modes") /\ Len(persisted.modes) > 0
  THEN persisted.modes ELSE defaultModes

InitialConnectors(persisted) ==
  IF Persists(persisted, "connectors") /\ Len(persisted.connectors) > 0
  THEN persisted.connectors ELSE defaultConnectors

InitialDesignProfile(persisted) ==
  IF Persists(persisted, "designProfile") THEN persisted.designProfile
  ELSE defaultDesignProfile

InitialActiveModeId(persisted) ==
  IF Persists(persisted, "activeModeId") THEN persisted.activeModeId
  ELSE defaultModes[1].id

\* the persist effect: window.localStorage.setItem(STORAGE_KEY, JSON.stringify(payload))
PersistedPayload(ms, cs, dp, id) ==
  [modes |-> ms, connectors |-> cs, designProfile |-> dp, activeModeId |-> id]

PersistWarning == "Failed to persist agentic studio state"

\* the effect runs after a render that logged the warnings w: setItem either
\* stores the text or throws, and the throw is caught and logged
PersistAfter(w) ==
  IF storageFull
  THEN storage' = storage /\ warnings' = w \cup {PersistWarning}
  ELSE /\ storage' = Stringify(PersistedPayload(modes', connectors', designProfile',
                                                 activeModeId'))
       /\ warnings' = w

PersistBad == storage' = storage /\ warnings' = warnings
Persist == PersistAfter(warnings)

(***************************************************************************)
(* Bounds of the model                                                     *)
(***************************************************************************)
MaxMsgIds == 4          \* message ids handed out in one run of the session
MaxResets == 1          \* runs of the persona effect after the first render
MaxCreatedModes == 1    \* personas created in the Mode Studio
MaxRemixes == 1         \* personas whose tone was remixed in the Mode Studio
MaxTasks == 3           \* asynchronous calls (getUserMedia, stop, fetch) started
MaxChunks == 1          \* non-empty chunks delivered by the recorders
MaxHistory == 13        \* messages of a conversation that is under way
MaxTextTasks == 2       \* fetches started in a typed conversation
MaxBlobLen == 4         \* bytes of a payload given to the audio helpers
MaxRouteConnectors == 3 \* connectors in a request body given to the route

(***************************************************************************)
(* app/page.tsx: Home                                                      *)
(***************************************************************************)
\* ids drawn by blankMode(), in the order they are drawn
NewModeIds == <<"mode-1a", "mode-2b", "mode-3c">>

\* a persona as it leaves the Mode Studio composer
NewModes(n) ==
  { [id |-> NewModeIds[n], name |-> "Untitled Mode", tone |-> "Adaptive, succinct",
     defaultOpeners |-> ops] : ops \in { <<>> } }

\* index of modes.find(mode => mode.id === id) ?? modes[0]
ActiveIndexBad(ms, id) == 1
ActiveIndex(ms, id) ==
  IF \E i \in 1..Len(ms) : ms[i].id = id
  THEN CHOOSE i \in 1..Len(ms) :
         ms[i].id = id /\ \A j \in 1..(i - 1) : ms[j].id # id
  ELSE 1

activeMode == modes[ActiveIndex(modes, activeModeId)]

(***************************************************************************)
(* components/voice-assistant.tsx: VoiceAssistant                          *)
(***************************************************************************)
FallbackOpener == <<"How can I assist?">>
Placeholder == <<"I generated a response but could not parse the content.">>
HistoryLimit == 12

\* the texts the user may have in the input box
Inputs == { <<>>, <<" ", " ">>, <<" ", "hello", " ">> }

\* the openers Math.random() may pick for a persona
Openers(mode) ==
  IF mode.defaultOpeners = <<>> THEN {FallbackOpener}
  ELSE { mode.defaultOpeners[i] : i \in 1..Len(mode.defaultOpeners) }

\* useEffect(..., [activeMode]): the conversation is replaced by one opener
ResetMessagesBad(prev, mode, opener, id) ==
  Append(prev, [id |-> id, role |-> "assistant", text |-> opener, modeId |-> mode.id])
ResetMessages(prev, mode, opener, id) ==
  << [id |-> id, role |-> "assistant", text |-> opener, modeId |-> mode.id] >>

\* the descriptor of a message sent without literal text
Descriptor(mode, hasAudio) ==
  Join(<< <<mode.name>>, <<mode.tone>> >> \o (IF hasAudio THEN << <<"voice capture">> >> ELSE <<>>),
       <<Bullet>>)

UserText(payload) == IF Has(payload, "prompt") THEN Trim(payload.prompt) ELSE <<>>

HasAudio(payload) == Has(payload, "audioBase64") /\ payload.audioBase64 # <<>>

\* nextMessages: the captured messages plus the user message, if any
NextMessages(msgs, mode, payload, id) ==
  IF HasAudio(payload) \/ UserText(payload) # <<>>
  THEN Append(msgs,
         [id |-> id, role |-> "user",
          text |-> IF UserText(payload) # <<>> THEN UserText(payload)
                   ELSE <<"[Sent ">> \o Descriptor(mode, HasAudio(payload)) \o <<"]">>,
          modeId |-> mode.id])
  ELSE msgs

\* nextMessages.slice(-12).map(({role, text, modeId}) => ({role, text, modeId}))
HistoryPayload(next) ==
  MapSeq(LAMBDA m : [role |-> m.role, text |-> m.text, modeId |-> m.modeId],
         SliceLast(next, HistoryLimit))

\* the JSON body of the fetch (undefined fields are dropped by JSON.stringify)
RequestBody(next, mode, payload, conns) ==
  LET base == [modeId |-> mode.id, prompt |-> UserText(payload),
               history |-> HistoryPayload(next), connectors |-> conns]
  IN  IF Has(payload, "audioBase64")
      THEN [f \in DOMAIN base \cup {"audioBase64"} |->
              IF f = "audioBase64" THEN payload.audioBase64 ELSE base[f]]
      ELSE base

\* transmitInteraction up to `await fetch`: msgs, mode and conns are the values
\* captured by the render whose handler runs
Transmit(msgs, mode, conns, payload) ==
  LET next == NextMessages(msgs, mode, payload, nextId)
      used == IF next = msgs THEN 0 ELSE 1
  IN  /\ messages' = next
      /\ status' = "processing"
      /\ errorMessage' = Null
      /\ nextId' = nextId + used
      /\ inflight' = inflight \cup
           { [tid |-> nextTask, modeId |-> mode.id,
              body |-> RequestBody(next, mode, payload, conns)] }
      /\ nextTask' = nextTask + 1

\* onChange of the input box
TypeInput(t) ==
  /\ delivered' = NoDelivery
  /\ t # input
  /\ input' = t
  /\ UNCHANGED <<homeVars, messages, status, errorMessage, nextId, resets,
                 recorderVars, taskVars, audioVars, routeVars, autoSpeak, page, warnings, storageFull>>
  /\ statusVia' = status'

\* if (!input.trim()) return;
SubmitGuardBad(t) == TRUE
SubmitGuard(t) == Trim(t) # <<>>

\* handleSubmit with nothing to send
SubmitEmpty ==
  /\ ~SubmitGuard(input)
  /\ delivered' = NoDelivery
  /\ UNCHANGED <<homeVars, sessionVars, recorderVars, taskVars, audioVars, routeVars, autoSpeak, page, warnings, storageFull>>
  /\ statusVia' = status'

\* handleSubmit: transmitInteraction({prompt: input})
SubmitText(lim, tlim) ==
  /\ delivered' = NoDelivery
  /\ SubmitGuard(input)
  /\ nextId <= lim
  /\ nextTask <= tlim
  /\ Transmit(messages, activeMode, connectors, [prompt |-> input])
  /\ UNCHANGED <<homeVars, input, resets, recorderVars, startTasks, stopTasks,
                 audioVars, routeVars, autoSpeak, page, warnings, storageFull>>
  /\ statusVia' = status'

StatusMessage(code) ==
  IF code = 400 THEN "Gemini request failed with status 400"
  ELSE IF code = 503 THEN "Gemini request failed with status 503"
  ELSE "Gemini request failed with status 500"

\* what fetch may deliver for a request: the route's answer, or an answer of
\* the platform when the route itself throws (no JSON body)
Responses(q) ==
  { POST(q.body, env, up) : env \in RouteEnvs, up \in UpstreamOutcomes }
  \cup { Unhandled }

ResponseOk(r) == r.status >= 200 /\ r.status <= 299

\* errorPayload?.error ?? `Gemini request failed with status ${response.status}`
FailureMessageBad(r) == StatusMessage(r.status)
FailureMessage(r) ==
  IF Has(r.body, "error") THEN r.body.error ELSE StatusMessage(r.status)

AssistantText(body) ==
  IF Has(body, "text") /\ Len(Trim(body.text)) > 0
  THEN Trim(body.text) ELSE Placeholder

AssistantMessage(q, body, id) ==
  [id |-> id, role |-> "assistant", text |-> AssistantText(body),
   modeId |-> q.modeId,
   connectorContext |-> IF Has(body, "connectorContext")
                        THEN body.connectorContext ELSE <<>>]

\* setMessages(prev => [...prev, assistantMessage])
FoldAssistant(prev, m) == Append(prev, m)

\* what the catch block does with the thrown message
CatchFailureBad(msg) ==
  /\ status' = "idle"
  /\ errorMessage' = msg
CatchFailure(msg) ==
  /\ status' = "error"
  /\ errorMessage' = msg

\* the exception of a speech sink that fails
SpeechError == "speech synthesis failed"

\* if (autoSpeak && hasSpeechSynthesis) { ...speak(utterance) }: the sink is
\* not called, or speaks, or throws
SpeechOutcomes(auto) == IF auto THEN {"quiet", "throws"} ELSE {"quiet"}

\* the fetch of request q resolves with a success status; o is what the
\* speech sink does
RespondOk(q, r, o, lim) ==
  /\ ResponseOk(r)
  /\ nextId <= lim
  /\ o \in SpeechOutcomes(autoSpeak)
  /\ messages' = FoldAssistant(messages, AssistantMessage(q, r.body, nextId))
  /\ nextId' = nextId + 1
  /\ IF o = "throws"
     THEN CatchFailure(SpeechError)
     ELSE status' = "idle" /\ UNCHANGED errorMessage
  /\ input' = <<>>
  /\ inflight' = inflight \ {q}
  /\ delivered' = [q |-> q, r |-> r, speech |-> o]
  /\ statusVia' = "idle"
  /\ UNCHANGED <<homeVars, resets, recorderVars, startTasks, stopTasks,
                 nextTask, audioVars, routeVars, autoSpeak, page, warnings, storageFull>>

\* onChange of the "Auto voice playback" checkbox
ToggleAutoSpeak ==
  /\ autoSpeak' = ~autoSpeak
  /\ delivered' = NoDelivery
  /\ statusVia' = status
  /\ UNCHANGED <<homeVars, sessionVars, recorderVars, taskVars, audioVars, routeVars, page, warnings, storageFull>>

\* the fetch of request q resolves with a non-success status
RespondFail(q, r) ==
  /\ ~ResponseOk(r)
  /\ CatchFailure(FailureMessage(r))
  /\ input' = <<>>
  /\ inflight' = inflight \ {q}
  /\ delivered' = [q |-> q, r |-> r, speech |-> "quiet"]
  /\ statusVia' = status'
  /\ UNCHANGED <<homeVars, messages, nextId, resets, recorderVars, startTasks, stopTasks,
                 nextTask, audioVars, routeVars, autoSpeak, page, warnings, storageFull>>

TransportError == "Failed to fetch"

\* a fetch that rejects delivers no response
Rejected == [status |-> 0, body |-> [thrown |-> TransportError], forwarded |-> <<>>]

\* the fetch of request q rejects
TransportFail(q) ==
  /\ CatchFailure(TransportError)
  /\ input' = <<>>
  /\ inflight' = inflight \ {q}
  /\ delivered' = [q |-> q, r |-> Rejected, speech |-> "quiet"]
  /\ statusVia' = status'
  /\ UNCHANGED <<homeVars, messages, nextId, resets, recorderVars, startTasks, stopTasks,
                 nextTask, audioVars, routeVars, autoSpeak, page, warnings, storageFull>>

(***************************************************************************)
(* app/page.tsx: the handlers of Home, with the persona effect of          *)
(* VoiceAssistant that a re-render runs when activeMode is a new object    *)
(***************************************************************************)
RemixTone == "Playful, brief."

Remixed(ms) == Cardinality({ i \in 1..Len(ms) : ms[i].tone = RemixTone })

\* onToggleMode / onSelectMode: setActiveModeId(id)
SelectMode(id, lim) ==
  /\ delivered' = NoDelivery
  /\ id # activeModeId
  /\ \E i \in 1..Len(modes) : modes[i].id = id
  /\ activeModeId' = id
  /\ UNCHANGED <<modes, connectors, designProfile>>
  /\ Persist
  /\ IF ActiveIndex(modes, id) # ActiveIndex(modes, activeModeId)
     THEN /\ nextId <= lim
          /\ resets < MaxResets
          /\ \E opener \in Openers(modes[ActiveIndex(modes, id)]) :
               messages' = ResetMessages(messages, modes[ActiveIndex(modes, id)],
                                         opener, nextId)
          /\ nextId' = nextId + 1
          /\ resets' = resets + 1
     ELSE UNCHANGED <<messages, nextId, resets>>
  /\ UNCHANGED <<status, input, errorMessage, recorderVars, taskVars,
                 audioVars, routeVars, autoSpeak, page, storageFull>>
  /\ statusVia' = status'

\* handleCreateMode: setModes(prev => [...prev, mode]); setActiveModeId(mode.id)
CreateMode(mode, lim) ==
  /\ delivered' = NoDelivery
  /\ Len(modes) - Len(defaultModes) < MaxCreatedModes
  /\ mode \in NewModes(Len(modes) - Len(defaultModes) + 1)
  /\ nextId <= lim
  /\ resets < MaxResets
  /\ resets' = resets + 1
  /\ modes' = Append(modes, mode)
  /\ activeModeId' = mode.id
  /\ UNCHANGED <<connectors, designProfile>>
  /\ Persist
  /\ \E opener \in Openers(modes'[ActiveIndex(modes', mode.id)]) :
       messages' = ResetMessages(messages, modes'[ActiveIndex(modes', mode.id)],
                                 opener, nextId)
  /\ nextId' = nextId + 1
  /\ UNCHANGED <<status, input, errorMessage, recorderVars, taskVars,
                 audioVars, routeVars, autoSpeak, page, storageFull>>
  /\ statusVia' = status'

\* handleUpdateMode: setModes(prev => prev.map(item => item.id === mode.id ? mode : item))
UpdateMode(i, tone, lim) ==
  /\ delivered' = NoDelivery
  /\ i \in 1..Len(modes)
  /\ tone \in {modes[i].tone, RemixTone}
  /\ modes' = [j \in 1..Len(modes) |->
                 IF modes[j].id = modes[i].id
                 THEN [modes[i] EXCEPT !.tone = tone] ELSE modes[j]]
  /\ Remixed(modes') <= MaxRemixes
  /\ UNCHANGED <<activeModeId, connectors, designProfile>>
  /\ Persist
  /\ IF modes[ActiveIndex(modes, activeModeId)].id = modes[i].id
     THEN /\ nextId <= lim
          /\ resets < MaxResets
          /\ \E opener \in Openers(modes'[ActiveIndex(modes', activeModeId)]) :
               messages' = ResetMessages(messages,
                                         modes'[ActiveIndex(modes', activeModeId)],
                                         opener, nextId)
          /\ nextId' = nextId + 1
          /\ resets' = resets + 1
     ELSE UNCHANGED <<messages, nextId, resets>>
  /\ UNCHANGED <<status, input, errorMessage, recorderVars, taskVars,
                 audioVars, routeVars, autoSpeak, page, storageFull>>
  /\ statusVia' = status'

(***************************************************************************)
(* components/integration-board.tsx, components/design-evolution-panel.tsx *)
(* and the handlers of app/page.tsx they call                              *)
(***************************************************************************)
\* value.split(","): the items between the "," tokens of a text
RECURSIVE SplitComma(_)
SplitComma(text) ==
  IF text = <<>> THEN << <<>> >>
  ELSE LET rest == SplitComma(Tail(text))
       IN  IF Head(text) = "," THEN << <<>> >> \o rest
           ELSE << <<Head(text)>> \o Head(rest) >> \o Tail(rest)

\* value.split(",").map(item => item.trim()).filter(Boolean); the items of
\* the model are one token long once trimmed
splitTokens(text) ==
  MapSeq(LAMBDA item : item[1],
         SelectSeq(MapSeq(Trim, SplitComma(text)), LAMBDA item : item # <<>>))

\* capabilities.join(",")
JoinComma(caps) == Join(MapSeq(LAMBDA cap : <<cap>>, caps), <<",">>)

\* generateConnectorId(): ids the random generator may return
NewConnectorIds == {"conn-4fzyo82m"}

\* what may be typed into the capabilities field of the composer
CapabilityInputs == { <<" ", "mail", ",", ",", " ", "search">> }

\* the form after openComposer and typing
FormStates ==
  { [id |-> id, name |-> "Orbit Mail Relay", status |-> "draft",
     capabilities |-> splitTokens(typed), lastSync |-> "now"] :
      id \in NewConnectorIds, typed \in CapabilityInputs }

\* handleSubmit of the composer: the payload given to onCreateConnector
ComposerPayload(form) ==
  [form EXCEPT !.capabilities = splitTokens(JoinComma(form.capabilities))]

\* handleCreateConnector
handleCreateConnectorBad(prev, connector) == <<connector>> \o prev
handleCreateConnector(prev, connector) ==
  IF \E i \in 1..Len(prev) : prev[i].id = connector.id
  THEN [i \in 1..Len(prev) |-> IF prev[i].id = connector.id THEN connector ELSE prev[i]]
  ELSE <<connector>> \o prev

\* handleUpdateConnector
handleUpdateConnector(prev, connector) ==
  [i \in 1..Len(prev) |-> IF prev[i].id = connector.id THEN connector ELSE prev[i]]

\* toggleStatus: active -> paused -> draft -> active
NextStatusBad(st) == IF st = "active" THEN "paused" ELSE "active"
NextStatus(st) ==
  IF st = "active" THEN "paused" ELSE IF st = "paused" THEN "draft" ELSE "active"

\* the composer's Create button
CreateConnector(form) ==
  /\ delivered' = NoDelivery
  /\ form \in FormStates
  /\ connectors' = handleCreateConnector(connectors, ComposerPayload(form))
  /\ connectors' # connectors
  /\ UNCHANGED <<modes, activeModeId, designProfile>>
  /\ Persist
  /\ UNCHANGED <<sessionVars, recorderVars, taskVars, audioVars, routeVars, autoSpeak, page, storageFull>>
  /\ statusVia' = status'

\* the status button of connector i
ToggleStatus(i) ==
  /\ delivered' = NoDelivery
  /\ i \in 1..Len(connectors)
  /\ connectors' = handleUpdateConnector(connectors,
       [connectors[i] EXCEPT !.status = NextStatus(connectors[i].status),
                             !.lastSync = "now"])
  /\ UNCHANGED <<modes, activeModeId, designProfile>>
  /\ Persist
  /\ UNCHANGED <<sessionVars, recorderVars, taskVars, audioVars, routeVars, autoSpeak, page, storageFull>>
  /\ statusVia' = status'

\* the controls of the design panel: onUpdateDesign({ ...designProfile, field: value })
DesignEdits(dp) ==
  { [dp EXCEPT !.primaryColor = c] : c \in {<<"#", "f", "f", "f">>} }
  \cup { [dp EXCEPT !.layout.density = d] : d \in {"cozy"} }

\* onUpdateDesign: setDesignProfile(profile)
UpdateDesign(profile) ==
  /\ delivered' = NoDelivery
  /\ profile \in DesignEdits(designProfile)
  /\ profile # designProfile
  /\ designProfile' = profile
  /\ UNCHANGED <<modes, activeModeId, connectors>>
  /\ Persist
  /\ UNCHANGED <<sessionVars, recorderVars, taskVars, audioVars, routeVars, autoSpeak, page, storageFull>>
  /\ statusVia' = status'

\* the page is loaded: the useState initialisers of Home read the stored
\* state, VoiceAssistant mounts and its persona effect posts the opener,
\* and the persist effect writes the state back
Startup(lim) ==
  /\ delivered' = NoDelivery
  /\ page = "closed"
  /\ page' = "open"
  /\ nextId <= lim
  /\ LET persisted == loadPersistedState(storage)
     IN  /\ modes' = InitialModes(persisted)
         /\ connectors' = InitialConnectors(persisted)
         /\ designProfile' = InitialDesignProfile(persisted)
         /\ activeModeId' = InitialActiveModeId(persisted)
  /\ PersistAfter(LoadWarnings(storage))
  /\ \E opener \in Openers(modes'[ActiveIndex(modes', activeModeId')]) :
       messages' = ResetMessages(<<>>, modes'[ActiveIndex(modes', activeModeId')],
                                 opener, nextId)
  /\ nextId' = nextId + 1
  /\ resets' = 0
  /\ status' = "idle" /\ input' = <<>> /\ errorMessage' = Null
  /\ autoSpeak' = TRUE
  /\ inflight' = {}
  /\ UNCHANGED <<recorderVars, startTasks, stopTasks, nextTask, audioVars, routeVars,
                 storageFull>>
  /\ statusVia' = status'

\* the page is left: the components unmount, what they held is gone, and
\* the stored state stays
ClosePage ==
  /\ delivered' = NoDelivery
  /\ page = "open"
  /\ page' = "closed"
  /\ messages' = <<>>
  /\ status' = "idle" /\ input' = <<>> /\ errorMessage' = Null
  /\ autoSpeak' = TRUE
  /\ inflight' = {}
  /\ UNCHANGED <<homeVars, warnings, storageFull, nextId, resets, recorderVars, startTasks, stopTasks,
                 nextTask, audioVars, routeVars>>
  /\ statusVia' = status'

(***************************************************************************)
(* hooks/use-audio-recorder.ts and the record button of VoiceAssistant     *)
(***************************************************************************)
UnsupportedError == "Microphone capture is not supported in this browser."
DeniedError == "Permission denied"
MimeError == "Failed to construct 'MediaRecorder': mimeType is not supported"
InvalidStateError == "Failed to execute 'stop' on 'MediaRecorder': state is 'inactive'"

\* the data a dataavailable event may carry
ChunkData == { <<>>, <<26, 69, 223>> }

TracksHandler == [kind |-> "tracks", tid |-> 0]
ResolveHandler(tid) == [kind |-> "resolve", tid |-> tid]

\* useEffect(..., [permissionError]) of VoiceAssistant, run by the re-render
\* that follows a change of permissionError
StatusAfterEffect(old, new, st) == IF new # old /\ new # Null THEN "error" ELSE st
ErrorAfterEffectBad(old, new, em) == em
ErrorAfterEffect(old, new, em) == IF new # old /\ new # Null THEN new ELSE em

\* the catch block of startRecording, then the effect
StartFailed(msg, st) ==
  /\ permissionError' = msg
  /\ isRecording' = FALSE
  /\ status' = StatusAfterEffect(permissionError, msg, st)
  /\ errorMessage' = ErrorAfterEffect(permissionError, msg, errorMessage)

\* record button while isRecording is false: setStatus("recording"); startRecording()
StartClick(tlim) ==
  /\ delivered' = NoDelivery
  /\ statusVia' = "recording"
  /\ ~isRecording
  /\ nextTask <= tlim
  /\ IF browser = "no-mic"
     THEN /\ StartFailed(UnsupportedError, "recording")
          /\ UNCHANGED <<startTasks, nextTask>>
     ELSE /\ status' = "recording"
          /\ startTasks' = startTasks + 1
          /\ nextTask' = nextTask + 1
          /\ UNCHANGED <<isRecording, permissionError, errorMessage>>
  /\ UNCHANGED <<homeVars, messages, input, nextId, resets, recorders, recorderRef,
                 streamRef, liveStreams, chunks, nextStream, browser,
                 stopTasks, inflight, audioVars, routeVars, autoSpeak, page, warnings, storageFull>>

\* getUserMedia resolves: the rest of startRecording
MediaGranted ==
  /\ delivered' = NoDelivery
  /\ startTasks > 0
  /\ startTasks' = startTasks - 1
  /\ chunks' = <<>>
  /\ streamRef' = nextStream
  /\ liveStreams' = liveStreams \cup {nextStream}
  /\ nextStream' = nextStream + 1
  /\ IF browser = "no-opus"
     THEN /\ StartFailed(MimeError, status)
          /\ UNCHANGED <<recorders, recorderRef>>
     ELSE /\ recorders' = Append(recorders,
                                 [state |-> "recording", onstop |-> TracksHandler,
                                  stream |-> nextStream, stopQueued |-> FALSE])
          /\ recorderRef' = Len(recorders) + 1
          /\ permissionError' = Null
          /\ isRecording' = TRUE
          /\ UNCHANGED <<status, errorMessage>>
  /\ UNCHANGED <<homeVars, messages, input, nextId, resets, browser, stopTasks, inflight,
                 nextTask, audioVars, routeVars, autoSpeak, page, warnings, storageFull>>
  /\ statusVia' = status'

\* getUserMedia rejects
MediaDenied ==
  /\ delivered' = NoDelivery
  /\ startTasks > 0
  /\ startTasks' = startTasks - 1
  /\ StartFailed(DeniedError, status)
  /\ UNCHANGED <<homeVars, messages, input, nextId, resets, recorders, recorderRef,
                 streamRef, liveStreams, chunks, nextStream, browser,
                 stopTasks, inflight, nextTask, audioVars, routeVars, autoSpeak, page, warnings, storageFull>>
  /\ statusVia' = status'

NonEmptyChunks == Len(SelectSeq(chunks, LAMBDA c : c # <<>>))

\* recorder.ondataavailable
DataAvailable(r, d) ==
  /\ delivered' = NoDelivery
  /\ r \in 1..Len(recorders)
  /\ recorders[r].state = "recording" \/ recorders[r].stopQueued
  /\ NonEmptyChunks < MaxChunks
  /\ chunks' = IF Len(d) > 0 THEN Append(chunks, d) ELSE chunks
  /\ UNCHANGED <<homeVars, sessionVars, isRecording, permissionError, recorders,
                 recorderRef, streamRef, liveStreams, nextStream, browser,
                 taskVars, audioVars, routeVars, autoSpeak, page, warnings, storageFull>>
  /\ statusVia' = status'

\* every track of the stream ends by itself: the recorder goes inactive and
\* its stop event is queued
TrackEnded(r) ==
  /\ delivered' = NoDelivery
  /\ r \in 1..Len(recorders)
  /\ recorders[r].state = "recording"
  /\ recorders' = [recorders EXCEPT ![r].state = "inactive", ![r].stopQueued = TRUE]
  /\ UNCHANGED <<homeVars, sessionVars, isRecording, permissionError,
                 recorderRef, streamRef, liveStreams, chunks, nextStream, browser,
                 taskVars, audioVars, routeVars, autoSpeak, page, warnings, storageFull>>
  /\ statusVia' = status'

\* stopRecording from `const completion` on, for the call of task t:
\* recorder.onstop = resolve; recorder.stop(); setIsRecording(false).
\* stop() on a recorder that is already inactive either throws
\* InvalidStateError or does nothing, depending on the browser.
StopNow(t, others) ==
  LET r == t.rec IN
  \/ /\ recorders[r].state = "recording"
     /\ recorders' = [recorders EXCEPT ![r].onstop = ResolveHandler(t.tid),
                                       ![r].state = "inactive",
                                       ![r].stopQueued = TRUE]
     /\ isRecording' = FALSE
     /\ stopTasks' = others \cup {[t EXCEPT !.pc = "stopEvent"]}
     /\ UNCHANGED <<status, errorMessage>>
  \/ /\ recorders[r].state = "inactive"
     /\ recorders' = [recorders EXCEPT ![r].onstop = ResolveHandler(t.tid)]
     /\ isRecording' = FALSE
     /\ stopTasks' = others \cup {[t EXCEPT !.pc = "stopEvent"]}
     /\ UNCHANGED <<status, errorMessage>>
  \/ /\ recorders[r].state = "inactive"
     /\ recorders' = [recorders EXCEPT ![r].onstop = ResolveHandler(t.tid)]
     /\ stopTasks' = others
     /\ CatchFailure(InvalidStateError)
     /\ UNCHANGED isRecording

\* record button while isRecording is true: handleStopRecording()
StopClick(tlim) ==
  /\ delivered' = NoDelivery
  /\ statusVia' = "processing"
  /\ isRecording
  /\ nextTask <= tlim
  /\ IF recorderRef = 0 \/ recorders[recorderRef].state # "recording"
     THEN \* stopRecording returns null: setStatus("processing"), then "idle"
          /\ status' = "idle"
          /\ UNCHANGED <<errorMessage, isRecording, recorders, stopTasks, nextTask>>
     ELSE LET t == [tid |-> nextTask, pc |-> "delay", rec |-> recorderRef,
                    stream |-> streamRef, msgs |-> messages, mode |-> activeMode,
                    conns |-> connectors, blob |-> <<>>]
          IN  /\ nextTask' = nextTask + 1
              /\ \/ \* elapsed < minRecordingMs: wait for the timer
                    /\ stopTasks' = stopTasks \cup {t}
                    /\ status' = "processing"
                    /\ UNCHANGED <<errorMessage, isRecording, recorders>>
                 \/ \* otherwise stop at once
                    /\ StopNow(t, stopTasks)
                    /\ status' = "processing"
                    /\ UNCHANGED errorMessage
  /\ UNCHANGED <<homeVars, messages, input, nextId, resets, permissionError, recorderRef,
                 streamRef, liveStreams, chunks, nextStream, browser,
                 startTasks, inflight, audioVars, routeVars, autoSpeak, page, warnings, storageFull>>

\* the minimum-duration timer of a stopRecording call fires
DelayElapsed(t) ==
  /\ delivered' = NoDelivery
  /\ t \in stopTasks
  /\ t.pc = "delay"
  /\ StopNow(t, stopTasks \ {t})
  /\ UNCHANGED <<homeVars, messages, input, nextId, resets, permissionError, recorderRef,
                 streamRef, liveStreams, chunks, nextStream, browser,
                 startTasks, inflight, nextTask, audioVars, routeVars, autoSpeak, page, warnings, storageFull>>
  /\ statusVia' = status'

Waiting(tid) == { t \in stopTasks : t.tid = tid /\ t.pc = "stopEvent" }

\* if (!blob || blob.size === 0) { setStatus("idle"); return; }
EmptyCaptureBad(blob) == FALSE
EmptyCapture(blob) == Len(blob) = 0

\* the stop event of recorder r is dispatched to its current onstop handler
StopEvent(r) ==
  /\ delivered' = NoDelivery
  /\ r \in 1..Len(recorders)
  /\ recorders[r].stopQueued
  /\ recorders' = [recorders EXCEPT ![r].stopQueued = FALSE]
  /\ IF recorders[r].onstop.kind = "tracks"
     THEN /\ liveStreams' = liveStreams \ {recorders[r].stream}
          /\ UNCHANGED <<status, stopTasks>>
     ELSE LET blob == Concat(chunks)
              ws   == Waiting(recorders[r].onstop.tid)
              strs == { t.stream : t \in { u \in stopTasks :
                                           u.tid = recorders[r].onstop.tid } }
          IN  /\ liveStreams' = liveStreams \ strs
              /\ IF ws = {} THEN UNCHANGED <<status, stopTasks>>
                 ELSE IF EmptyCapture(blob)
                 THEN /\ status' = "idle"
                      /\ stopTasks' = stopTasks \ ws
                 ELSE /\ stopTasks' = (stopTasks \ ws) \cup
                            { [t EXCEPT !.pc = "encode", !.blob = blob] : t \in ws }
                      /\ UNCHANGED status
  /\ UNCHANGED <<homeVars, messages, input, errorMessage, nextId, resets, isRecording,
                 permissionError, recorderRef, streamRef, chunks, nextStream,
                 browser, startTasks, inflight, nextTask, audioVars, routeVars, autoSpeak, page, warnings, storageFull>>
  /\ statusVia' = status'

\* blob.arrayBuffer() resolves: blobToBase64, then transmitInteraction with
\* the values captured when the stop button was pressed
Encoded(t, lim) ==
  /\ delivered' = NoDelivery
  /\ t \in stopTasks
  /\ t.pc = "encode"
  /\ nextId <= lim
  /\ stopTasks' = stopTasks \ {t}
  /\ Transmit(t.msgs, t.mode, t.conns, [audioBase64 |-> blobToBase64(t.blob)])
  /\ UNCHANGED <<homeVars, input, resets, recorderVars, startTasks, audioVars, routeVars, autoSpeak, page, warnings, storageFull>>
  /\ statusVia' = status'

(***************************************************************************)
(* Specifications                                                          *)
(***************************************************************************)
\* the connector lists the console may run with: the built-in ones, or the
\* same list with the first connector paused
StartConnectors ==
  { defaultConnectors,
    [defaultConnectors EXCEPT ![1].status = "paused"] }

InitAudioIdle ==
  audioPc = "idle" /\ audioBytes = <<>> /\ audioText = <<>> /\ audioBack = <<>>

InitRouteIdle ==
  /\ routePc = "idle" /\ routeReq = [modeId |-> ""] /\ routeEnv = [apiKey |-> TRUE]
  /\ routeResp = [status |-> 0]

InitRecorder ==
  /\ isRecording = FALSE /\ permissionError = Null
  /\ recorders = <<>> /\ recorderRef = 0 /\ streamRef = 0 /\ liveStreams = {}
  /\ chunks = <<>> /\ nextStream = 1
  /\ startTasks = 0 /\ stopTasks = {} /\ inflight = {} /\ nextTask = 1
  /\ delivered = NoDelivery
  /\ statusVia = "idle"
  /\ autoSpeak = TRUE

\* Home and VoiceAssistant after the first render and its effects, with
\* nothing in local storage
InitSession ==
  /\ modes = defaultModes
  /\ activeModeId = defaultModes[1].id
  /\ connectors = defaultConnectors
  /\ designProfile = defaultDesignProfile
  /\ page = "open"
  /\ warnings = {}
  /\ storageFull = FALSE
  /\ storage = Stringify(PersistedPayload(modes, connectors, designProfile, activeModeId))
  /\ \E opener \in Openers(defaultModes[1]) :
       messages = ResetMessages(<<>>, defaultModes[1], opener, 1)
  /\ nextId = 2 /\ resets = 0
  /\ status = "idle" /\ input = <<>> /\ errorMessage = Null

\* ---- Spec: the whole console (session, persona selection, recorder)
Init ==
  /\ InitSession
  /\ browser \in {"full", "no-mic", "no-opus"}
  /\ InitRecorder
  /\ InitAudioIdle
  /\ InitRouteIdle

Next ==
  \/ \E t \in Inputs : TypeInput(t)
  \/ SubmitEmpty
  \/ SubmitText(MaxMsgIds, MaxTasks)
  \/ \E q \in inflight : \E r \in Responses(q) : \E o \in {"quiet", "throws"} :
       RespondOk(q, r, o, MaxMsgIds)
  \/ \E q \in inflight : \E r \in Responses(q) : RespondFail(q, r)
  \/ \E q \in inflight : TransportFail(q)
  \/ \E i \in 1..Len(modes) : SelectMode(modes[i].id, MaxMsgIds)
  \/ \E m \in NewModes(Len(modes) - Len(defaultModes) + 1) : CreateMode(m, MaxMsgIds)
  \/ StartClick(MaxTasks)
  \/ MediaGranted
  \/ MediaDenied
  \/ \E r \in 1..Len(recorders) : \E d \in ChunkData : DataAvailable(r, d)
  \/ \E r \in 1..Len(recorders) : TrackEnded(r)
  \/ StopClick(MaxTasks)
  \/ \E t \in stopTasks : DelayElapsed(t)
  \/ \E r \in 1..Len(recorders) : StopEvent(r)
  \/ \E t \in stopTasks : Encoded(t, MaxMsgIds)

Spec == Init /\ [][Next]_vars

\* ---- SpecText: typed conversations of any length up to MaxHistory, the
\* personas and their remixes, and every connector list of StartConnectors
Exchange(n, id) ==
  IF n % 2 = 0
  THEN [id |-> n, role |-> "user", text |-> <<"hello">>, modeId |-> id]
  ELSE [id |-> n, role |-> "assistant", text |-> <<"hi there">>, modeId |-> id,
        connectorContext |-> <<>>]

\* the conversation after n - 1 messages have followed the opener
Conversation(opener, n) ==
  [i \in 1..n |-> IF i = 1 THEN opener[1] ELSE Exchange(i, opener[1].modeId)]

\* a conversation that has just begun, and conversations around HistoryLimit
HistoryLengths == {1} \cup ((MaxHistory - 2)..MaxHistory)

TextIdLimit == MaxHistory + 2 * MaxTextTasks + MaxResets + 1

InitText ==
  /\ modes = defaultModes
  /\ activeModeId = defaultModes[1].id
  /\ connectors \in StartConnectors
  /\ designProfile = defaultDesignProfile
  /\ page = "open"
  /\ warnings = {}
  /\ storageFull = FALSE
  /\ storage = Stringify(PersistedPayload(modes, connectors, designProfile, activeModeId))
  /\ \E n \in HistoryLengths :
       /\ messages = Conversation(
            ResetMessages(<<>>, defaultModes[1], defaultModes[1].defaultOpeners[1], 1), n)
       /\ nextId = n + 1
  /\ resets = 0
  /\ status = "idle" /\ input = <<>> /\ errorMessage = Null
  /\ browser = "full"
  /\ InitRecorder
  /\ InitAudioIdle
  /\ InitRouteIdle

NextText ==
  \/ \E t \in Inputs : TypeInput(t)
  \/ SubmitEmpty
  \/ SubmitText(TextIdLimit, MaxTextTasks)
  \/ \E q \in inflight : \E r \in Responses(q) : \E o \in {"quiet", "throws"} :
       RespondOk(q, r, o, TextIdLimit)
  \/ \E q \in inflight : \E r \in Responses(q) : RespondFail(q, r)
  \/ \E q \in inflight : TransportFail(q)
  \/ \E i \in 1..Len(modes) : SelectMode(modes[i].id, TextIdLimit)
  \/ \E m \in NewModes(Len(modes) - Len(defaultModes) + 1) : CreateMode(m, TextIdLimit)
  \/ \E i \in 1..Len(modes) : \E tone \in {modes[i].tone, RemixTone} :
       UpdateMode(i, tone, TextIdLimit)
  \/ ToggleAutoSpeak

SpecText == InitText /\ [][NextText]_vars

\* ---- SpecStop: the recorder and its captures alone, with the progress the
\* browser guarantees: a timer fires, a queued stop event is dispatched,
\* blob.arrayBuffer() resolves, and a fetch settles
MaxStopIds == 8         \* message ids handed out in one run of SpecStop

NextStop ==
  \/ StartClick(MaxTasks)
  \/ MediaGranted
  \/ MediaDenied
  \/ \E r \in 1..Len(recorders) : \E d \in ChunkData : DataAvailable(r, d)
  \/ \E r \in 1..Len(recorders) : TrackEnded(r)
  \/ StopClick(MaxTasks)
  \/ \E t \in stopTasks : DelayElapsed(t)
  \/ \E r \in 1..Len(recorders) : StopEvent(r)
  \/ \E t \in stopTasks : Encoded(t, MaxStopIds)
  \/ \E q \in inflight : \E r \in Responses(q) : \E o \in {"quiet", "throws"} :
       RespondOk(q, r, o, MaxStopIds)
  \/ \E q \in inflight : \E r \in Responses(q) : RespondFail(q, r)
  \/ \E q \in inflight : TransportFail(q)

FetchSettles ==
  \E q \in inflight :
    \/ TransportFail(q)
    \/ \E r \in Responses(q) :
         \/ RespondFail(q, r)
         \/ \E o \in {"quiet", "throws"} : RespondOk(q, r, o, MaxStopIds)

FairStop ==
  /\ WF_vars(\E t \in stopTasks : DelayElapsed(t))
  /\ WF_vars(\E r \in 1..Len(recorders) : StopEvent(r))
  /\ WF_vars(\E t \in stopTasks : Encoded(t, MaxStopIds))
  /\ WF_vars(FetchSettles)

SpecStop == Init /\ [][NextStop]_vars /\ FairStop

\* ---- SpecAudio: blobToBase64 followed by base64ToBlob on sample payloads
ByteSamples == {0, 77, 170, 255}

RECURSIVE SeqsUpTo(_, _)
SeqsUpTo(S, n) ==
  IF n = 0 THEN { <<>> }
  ELSE LET shorter == SeqsUpTo(S, n - 1)
       IN  shorter \cup { Append(q, x) : q \in { u \in shorter : Len(u) = n - 1 }, x \in S }

\* the console at rest, while a helper or the route is exercised on its own
InitQuiet ==
  /\ modes = defaultModes
  /\ activeModeId = defaultModes[1].id
  /\ connectors = defaultConnectors
  /\ designProfile = defaultDesignProfile
  /\ page = "open"
  /\ warnings = {}
  /\ storageFull = FALSE
  /\ storage = Stringify(PersistedPayload(modes, connectors, designProfile, activeModeId))
  /\ messages = ResetMessages(<<>>, defaultModes[1], defaultModes[1].defaultOpeners[1], 1)
  /\ nextId = 2 /\ resets = 0
  /\ status = "idle" /\ input = <<>> /\ errorMessage = Null
  /\ browser = "full"
  /\ InitRecorder

InitAudio ==
  /\ InitQuiet
  /\ InitRouteIdle
  /\ audioPc = "blob"
  /\ audioBytes \in SeqsUpTo(ByteSamples, MaxBlobLen)
  /\ audioText = <<>>
  /\ audioBack = <<>>

AudioEncode ==
  /\ delivered' = NoDelivery
  /\ audioPc = "blob"
  /\ audioText' = blobToBase64(audioBytes)
  /\ audioPc' = "encoded"
  /\ UNCHANGED <<homeVars, sessionVars, recorderVars, taskVars, audioBytes,
                 audioBack, routeVars, autoSpeak, page, warnings, storageFull>>
  /\ statusVia' = status'

AudioDecode ==
  /\ delivered' = NoDelivery
  /\ audioPc = "encoded"
  /\ audioBack' = base64ToBlob(audioText)
  /\ audioPc' = "decoded"
  /\ UNCHANGED <<homeVars, sessionVars, recorderVars, taskVars, audioBytes,
                 audioText, routeVars, autoSpeak, page, warnings, storageFull>>
  /\ statusVia' = status'

NextAudio == AudioEncode \/ AudioDecode

SpecAudio == InitAudio /\ [][NextAudio]_vars

\* ---- SpecRoute: POST /api/gemini/live on request bodies of every shape
RouteNames == <<"Atlas Research Graph", "Journey Analytics API",
                "Synth Feedback Lake", "Orbit Mail Relay">>
RouteCapabilities == <<"semantic-search", "pattern-mining", "snapshot-exports",
                       "trend-digest">>
RouteCapabilityCount == <<4, 0, 3, 1>>

RouteConnector(i, st) ==
  [id |-> RouteNames[i], name |-> RouteNames[i], status |-> st,
   capabilities |-> SubSeq(RouteCapabilities, 1, RouteCapabilityCount[i])]

\* connector lists: any of the first n connectors, in order, in any status
RECURSIVE RouteConnectorLists(_)
RouteConnectorLists(n) ==
  IF n = 0 THEN { <<>> }
  ELSE LET shorter == RouteConnectorLists(n - 1)
       IN  shorter \cup
           { Append(l, RouteConnector(n, st)) :
               l \in shorter, st \in {"active", "paused", "draft"} }

RouteHistory ==
  << [role |-> "assistant", text |-> <<"Where should we take the interface next?">>,
      modeId |-> "aether"],
     [role |-> "user", text |-> <<" ">>, modeId |-> "aether"] >>

\* a request body: every field may be missing
RoutePayloads ==
  LET full == { [modeId |-> "aether", audioBase64 |-> a, prompt |-> pr,
                 history |-> RouteHistory, connectors |-> cs] :
                  a \in { blobToBase64(<<26, 69, 223>>) },
                  pr \in { <<>>, <<" ">>, <<" ", "hello">> },
                  cs \in RouteConnectorLists(MaxRouteConnectors) }
      shapes == { D \in SUBSET {"modeId", "audioBase64", "prompt", "connectors"} :
                    TRUE }
  IN  { [f \in D \cup {"history"} |-> p[f]] : p \in full, D \in shapes }
      \cup { Malformed }

InitRoute ==
  /\ InitQuiet
  /\ InitAudioIdle
  /\ routePc = "request"
  /\ routeReq \in RoutePayloads
  /\ routeEnv \in RouteEnvs
  /\ routeResp = [status |-> 0]

RoutePost ==
  /\ delivered' = NoDelivery
  /\ routePc = "request"
  /\ \E up \in RouteUpstreamOutcomes : routeResp' = POST(routeReq, routeEnv, up)
  /\ routePc' = "done"
  /\ UNCHANGED <<homeVars, sessionVars, recorderVars, taskVars, audioVars,
                 routeReq, routeEnv, autoSpeak, page, warnings, storageFull>>
  /\ statusVia' = status'

NextRoute == RoutePost

SpecRoute == InitRoute /\ [][NextRoute]_vars

\* ---- SpecDesign: POST /api/design on profiles and upstream answers
DesignColors ==
  { <<"#", "6", "c", "4", "a", "f", "e">>, <<"#", "0", "d", "d", "4", "f", "f">>,
    <<"#", "f", "f", "f">>, <<"t", "e", "a", "l">> }

DesignProfiles ==
  { [id |-> "hyperwave", primaryColor |-> c1, accentColor |-> c2] :
      c1 \in DesignColors, c2 \in DesignColors }

DesignPayloads ==
  { [profile |-> pr] : pr \in DesignProfiles } \cup { [other |-> TRUE], Malformed }

DesignUpstreamOutcomes ==
  { [ok |-> TRUE, status |-> 200, parts |-> <<[text |-> SuggestionText]>>],
    [ok |-> TRUE, status |-> 200, parts |-> <<[text |-> <<"{}">>]>>],
    [ok |-> TRUE, status |-> 200, parts |-> <<[text |-> <<"42">>]>>],
    [ok |-> TRUE, status |-> 200, parts |-> <<[text |-> <<"{\"error\":\"overloaded\"}">>]>>],
    [ok |-> TRUE, status |-> 200, parts |-> <<[text |-> <<"Sure! Here is the JSON you asked for.">>]>>],
    [ok |-> TRUE, status |-> 200, parts |-> <<[text |-> <<SuggestionText[1]>>], [text |-> <<SuggestionText[2]>>]>>],
    [ok |-> TRUE, status |-> 200, parts |-> <<[inline_data |-> <<>>], [text |-> SuggestionText]>>],
    [ok |-> TRUE, status |-> 200, parts |-> <<>>],
    [ok |-> TRUE, status |-> 200],
    [ok |-> FALSE, status |-> 503, errKind |-> "message", err |-> "upstream down"],
    [ok |-> FALSE, status |-> 429, errKind |-> "none", err |-> ""] }

DesignEnvs == { [apiKey |-> k, upstream |-> up] : k \in BOOLEAN, up \in DesignUpstreamOutcomes }

InitDesign ==
  /\ InitQuiet
  /\ InitAudioIdle
  /\ routePc = "request"
  /\ routeReq \in DesignPayloads
  /\ routeEnv \in DesignEnvs
  /\ routeResp = [status |-> 0]

DesignPost ==
  /\ delivered' = NoDelivery
  /\ routePc = "request"
  /\ routeResp' = DesignPOST(routeReq, routeEnv)
  /\ routePc' = "done"
  /\ UNCHANGED <<homeVars, sessionVars, recorderVars, taskVars, audioVars,
                 routeReq, routeEnv, autoSpeak, page, warnings, storageFull>>
  /\ statusVia' = status'

NextDesign == DesignPost

SpecDesign == InitDesign /\ [][NextDesign]_vars

\* ---- SpecHome: the page from one load to the next: personas, connectors,
\* the design profile and the stored state
MaxHomeIds == 3         \* message ids handed out in one run of SpecHome

\* what localStorage may hold when the page is first loaded
StoredPayloads ==
  { PersistedPayload(defaultModes, [defaultConnectors EXCEPT ![1].status = "paused"],
                     [defaultDesignProfile EXCEPT !.layout.density = "airy"],
                     defaultModes[2].id),
    PersistedPayload(defaultModes, defaultConnectors, defaultDesignProfile, "mode-gone"),
    [modes |-> <<>>, connectors |-> <<>>] }

StoredTexts ==
  { MissingItem, EmptyText, CorruptText, NullText, OtherObjectText }
  \cup { Stringify(payload) : payload \in StoredPayloads }

InitHome ==
  /\ page = "closed"
  /\ warnings = {}
  /\ storageFull \in BOOLEAN
  /\ storage \in StoredTexts
  /\ modes = defaultModes
  /\ activeModeId = defaultModes[1].id
  /\ connectors = defaultConnectors
  /\ designProfile = defaultDesignProfile
  /\ messages = <<>>
  /\ nextId = 1 /\ resets = 0
  /\ status = "idle" /\ input = <<>> /\ errorMessage = Null
  /\ browser = "full"
  /\ InitRecorder
  /\ InitAudioIdle
  /\ InitRouteIdle

\* the connectors whose status button is pressed: the first two of the list
ToggleIndices == {1, 2}

NextHome ==
  \/ Startup(MaxHomeIds)
  \/ ClosePage
  \/ page = "open" /\ \E i \in 1..Len(modes) : SelectMode(modes[i].id, MaxHomeIds)
  \/ page = "open" /\ \E m \in NewModes(Len(modes) - Len(defaultModes) + 1) :
       CreateMode(m, MaxHomeIds)
  \/ page = "open" /\ \E i \in 1..Len(modes) : UpdateMode(i, RemixTone, MaxHomeIds)
  \/ page = "open" /\ \E form \in FormStates : CreateConnector(form)
  \/ page = "open" /\ \E i \in ToggleIndices : ToggleStatus(i)
  \/ page = "open" /\ \E profile \in DesignEdits(designProfile) : UpdateDesign(profile)

SpecHome == InitHome /\ [][NextHome]_vars

\* ---- SpecFrame: a typed conversation while personas are remixed and
\* connectors and the design profile are changed
MaxFrameIds == 3        \* message ids handed out in one run of SpecFrame
MaxFrameTasks == 1      \* fetches started in one run of SpecFrame

FrameInputs == { <<" ", "hello", " ">> }

NextFrame ==
  \/ \E t \in FrameInputs : TypeInput(t)
  \/ SubmitText(MaxFrameIds, MaxFrameTasks)
  \/ \E q \in inflight : \E r \in Responses(q) : RespondOk(q, r, "quiet", MaxFrameIds)
  \/ \E q \in inflight : \E r \in Responses(q) : RespondFail(q, r)
  \/ \E i \in 1..Len(modes) : SelectMode(modes[i].id, MaxFrameIds)
  \/ \E i \in 1..Len(modes) : UpdateMode(i, RemixTone, MaxFrameIds)
  \/ \E form \in FormStates : CreateConnector(form)
  \/ ToggleStatus(1)
  \/ \E profile \in DesignEdits(designProfile) : UpdateDesign(profile)

InitFrame == InitQuiet /\ InitAudioIdle /\ InitRouteIdle

SpecFrame == InitFrame /\ [][NextFrame]_vars

(***************************************************************************)
(* Properties                                                              *)
(***************************************************************************)
IsPrefix(a, b) == Len(a) <= Len(b) /\ SubSeq(b, 1, Len(a)) = a

\* t is raw without its leading and trailing blanks
IsTrimOf(t, raw) ==
  /\ t # <<>> => ~IsSpace(t[1]) /\ ~IsSpace(t[Len(t)])
  /\ \E k \in 0..(Len(raw) - Len(t)) :
       /\ SubSeq(raw, k + 1, k + Len(t)) = t
       /\ \A i \in (1..k) \cup ((k + Len(t) + 1)..Len(raw)) : IsSpace(raw[i])

\* the requests issued, and the messages created, by the step
Issued == inflight' \ inflight
Created == { messages'[i] : i \in { j \in 1..Len(messages') : messages'[j].id >= nextId } }

LastMessage(ms) == ms[Len(ms)]

\* C1: whenever the active persona changes to a persona P, messages right
\* after the switch has exactly one entry and its modeId is P's id, whatever
\* messages held before.
C1_SwitchResets ==
  [][ activeMode'.id # activeMode.id =>
        /\ Len(messages') = 1
        /\ messages'[1].modeId = activeMode'.id ]_vars

\* a persona was selected while a conversation was under way
C1_Witness ==
  /\ resets = 1
  /\ activeMode.id = "sentience"
  /\ Len(messages) = 1
  /\ messages[1].modeId = "sentience"
  /\ messages[1].id >= 4

\* C2: with an empty or blank input box and no audio, no step issues a
\* request without audio or adds a user message: a submission of blank text
\* changes neither messages nor the requests in flight, in every status.
C2_BlankSubmitNoOp ==
  [][ (Trim(input) = <<>> /\ ~\E t \in stopTasks : t.pc = "encode" /\ t \notin stopTasks')
        => /\ Issued = {}
           /\ \A m \in Created : m.role = "assistant" ]_vars

\* blank text sits in the input box while the session shows an error
C2_Witness ==
  /\ input = <<" ", " ">>
  /\ status = "error"
  /\ inflight = {}
  /\ Len(messages) = 1

\* C3: submitting non-blank text t under persona P appends one user message
\* with the trimmed t and modeId = P's id; a success response with text r then
\* appends one assistant message with text r and the connectorContext of the
\* response (empty when no connector is active), and status becomes idle.
C3_TextExchange ==
  [][ /\ \A q \in Issued : ~Has(q.body, "audioBase64") =>
           /\ messages' = Append(messages, LastMessage(messages'))
           /\ LastMessage(messages').role = "user"
           /\ LastMessage(messages').text # <<>>
           /\ IsTrimOf(LastMessage(messages').text, input)
           /\ LastMessage(messages').modeId = activeMode.id
           /\ LastMessage(messages').id = nextId
      /\ (delivered' # NoDelivery /\ ResponseOk(delivered'.r)
            /\ delivered'.r.body.text # <<>>) =>
           /\ messages' = Append(messages, LastMessage(messages'))
           /\ LastMessage(messages').role = "assistant"
           /\ LastMessage(messages').text = delivered'.r.body.text
           /\ LastMessage(messages').connectorContext = delivered'.r.body.connectorContext
           /\ (\A i \in 1..Len(delivered'.q.body.connectors) :
                 delivered'.q.body.connectors[i].status # "active")
                => LastMessage(messages').connectorContext = <<>>
           /\ status' = "idle" ]_vars

\* "hello" was sent under aether with no connector active and answered
C3_Witness ==
  /\ Len(messages) >= 3
  /\ messages[Len(messages) - 1].role = "user"
  /\ messages[Len(messages) - 1].text = <<"hello">>
  /\ messages[Len(messages) - 1].modeId = "aether"
  /\ messages[Len(messages) - 1].id = nextId - 2
  /\ LastMessage(messages).role = "assistant"
  /\ LastMessage(messages).text = <<"hi there">>
  /\ LastMessage(messages).connectorContext = <<>>
  /\ connectors[1].status = "paused"
  /\ delivered.q.tid = 1 /\ delivered.r.status = 200
  /\ status = "idle"

\* C4: a non-success response whose body carries an error string e puts the
\* session in status error with errorMessage = e and adds no message: messages
\* stays what the submission left.
C4_ErrorResponse ==
  [][ (delivered' # NoDelivery /\ ~ResponseOk(delivered'.r)
         /\ Has(delivered'.r.body, "error")) =>
        /\ status' = "error"
        /\ errorMessage' = delivered'.r.body.error
        /\ messages' = messages ]_vars

\* a submission was answered with status 500 and {error: "upstream down"}
C4_Witness ==
  /\ status = "error"
  /\ errorMessage = "upstream down"
  /\ delivered.r.status = 500
  /\ delivered.r.body = [error |-> "upstream down"]
  /\ Len(messages) = 2
  /\ messages[2].role = "user"
  /\ inflight = {}

\* C5: the history of every request has at most 12 entries and is the last
\* min(12, length) messages of the session, the user message just appended
\* included, oldest first, each reduced to role, text and modeId.
C5_HistoryWindow ==
  [][ \A q \in Issued :
        LET h == q.body.history
            n == Len(messages')
        IN  /\ Len(h) <= 12
            /\ Len(h) = Min(12, n)
            /\ \A i \in 1..Len(h) :
                 h[i] = [role |-> messages'[n - Len(h) + i].role,
                         text |-> messages'[n - Len(h) + i].text,
                         modeId |-> messages'[n - Len(h) + i].modeId] ]_vars

\* a request is in flight whose history left out the oldest messages
C5_Witness ==
  \E q \in inflight :
    /\ Len(q.body.history) = 12
    /\ Len(messages) = 14
    /\ q.body.history[12].role = "user"
    /\ q.body.history[1].text = messages[3].text
    /\ q.body.history[1].role = messages[3].role

\* the k-th active connector of a list
ActiveAt(cs, k) ==
  CHOOSE i \in 1..Len(cs) :
    /\ cs[i].status = "active"
    /\ Cardinality({ j \in 1..i : cs[j].status = "active" }) = k

\* C6: the connectorContext of a success response has one entry per active
\* connector of the request and none for paused or draft ones, in list order,
\* each entry being the name, the separator, and the first at most 3
\* capabilities joined by ", ".
C6_ConnectorContext ==
  (routePc = "done" /\ routeResp.status = 200) =>
    LET cs  == IF Has(routeReq, "connectors") THEN routeReq.connectors ELSE <<>>
        ctx == routeResp.body.connectorContext
    IN  /\ Len(ctx) = Cardinality({ i \in 1..Len(cs) : cs[i].status = "active" })
        /\ \A k \in 1..Len(ctx) :
             LET c == cs[ActiveAt(cs, k)]
                 n == Min(3, Len(c.capabilities))
             IN  /\ Len(ctx[k]) = 2 + (IF n = 0 THEN 0 ELSE 2 * n - 1)
                 /\ ctx[k][1] = c.name
                 /\ ctx[k][2] = MiddleDot
                 /\ \A j \in 1..n : ctx[k][2 * j + 1] = c.capabilities[j]
                 /\ \A j \in 1..(n - 1) : ctx[k][2 * j + 2] = ", "

\* three connectors, active, paused and draft: only the first is listed,
\* with three of its four capabilities
C6_Witness ==
  /\ routePc = "done"
  /\ routeResp.status = 200
  /\ Has(routeReq, "connectors")
  /\ Len(routeReq.connectors) = 3
  /\ routeReq.connectors[1].status = "active"
  /\ Len(routeReq.connectors[1].capabilities) = 4
  /\ routeReq.connectors[2].status = "paused"
  /\ routeReq.connectors[3].status = "draft"
  /\ routeResp.body.connectorContext =
       << <<"Atlas Research Graph", MiddleDot, "semantic-search", ", ",
            "pattern-mining", ", ", "snapshot-exports">> >>

\* the recorders whose stop event the step dispatched to the handler that
\* resolves a pending stopRecording call
Finalized ==
  { r \in 1..Len(recorders) :
      /\ recorders[r].stopQueued
      /\ ~recorders'[r].stopQueued
      /\ recorders[r].onstop.kind = "resolve"
      /\ Waiting(recorders[r].onstop.tid) # {} }

\* C7: when a stopped recording is finalized with zero captured bytes, the
\* status becomes idle, messages and the requests in flight stay as they were
\* and nothing of the stop is left to run; and pressing stop while the
\* recorder is not recording (no capture), with no text to send, no persona
\* change, no response and no other recorder or task event in the step, only
\* sets the status to idle.
C7_EmptyCaptureIdle ==
  [][ /\ (Finalized # {} /\ Concat(chunks) = <<>>) =>
           /\ status' = "idle"
           /\ messages' = messages
           /\ inflight' = inflight
           /\ \A r \in Finalized : \A t \in stopTasks' : t.tid # recorders[r].onstop.tid
      /\ (/\ isRecording
          /\ recorderRef = 0 \/ recorders[recorderRef].state # "recording"
          /\ Trim(input) = <<>> /\ input' = input
          /\ \A t \in stopTasks : t.pc # "encode"
          /\ delivered' = NoDelivery
          /\ UNCHANGED <<homeVars, recorderVars, startTasks>>
          /\ status' # status) =>
           /\ status' = "idle"
           /\ messages' = messages
           /\ inflight' = inflight
           /\ stopTasks' = stopTasks ]_vars

\* one recording was started and stopped, nothing was captured, and the
\* session is back to idle with the opener alone and no request
C7_Witness ==
  /\ Len(recorders) = 1
  /\ recorders[1].onstop.kind = "resolve"
  /\ recorders[1].state = "inactive"
  /\ ~recorders[1].stopQueued
  /\ ~isRecording
  /\ chunks = <<>>
  /\ nextTask = 3
  /\ stopTasks = {}
  /\ status = "idle"
  /\ Len(messages) = 1
  /\ inflight = {}

\* C8: decoding the base64 text of a byte sequence gives back the same bytes,
\* in the same order and of the same length, the empty sequence included.
C8_RoundTrip ==
  audioPc = "decoded" => audioBack = audioBytes

\* a payload of MaxBlobLen bytes, with the bytes 0 and 255 in it, was encoded
\* with padding-free text and decoded
C8_Witness ==
  /\ audioPc = "decoded"
  /\ Len(audioBytes) = 3
  /\ audioBytes[1] = 255 /\ audioBytes[2] = 0 /\ audioBytes[3] = 170
  /\ audioText = <<"/", "w", "C", "q">>
  /\ audioBack = <<255, 0, 170>>

\* C9: at most one backend request of the session is in flight.
C9_OneInFlight ==
  Cardinality(inflight) <= 1

\* C10: unless the step is a persona-switch reset, messages before the step
\* is a prefix of messages after it.
C10_AppendOnly ==
  [][ resets' = resets => IsPrefix(messages, messages') ]_vars

\* C11: after a persona switch, messages begins with the opener of the
\* active persona and holds only messages of that persona, none of them
\* created before the opener, whatever request or recording finalization
\* started before the switch completes after it.
C11_OnlyActivePersona ==
  resets > 0 =>
    /\ messages[1].role = "assistant"
    /\ \A i \in 1..Len(messages) :
         /\ messages[i].modeId = activeMode.id
         /\ messages[i].id >= messages[1].id

\* the transitions of the session state machine
Transitions ==
  { <<"idle", "recording">>, <<"recording", "processing">>, <<"recording", "idle">>,
    <<"idle", "processing">>, <<"processing", "idle">>, <<"processing", "error">>,
    <<"recording", "error">>, <<"error", "recording">>, <<"error", "processing">> }

Allowed(a, b) == a = b \/ <<a, b>> \in Transitions

\* C12: every change of status made by a step, the one through the status it
\* sets first included, is a transition of the state machine; so status
\* never goes from processing to recording nor from idle to error.
C12_StatusMachine ==
  [][ Allowed(status, statusVia') /\ Allowed(statusVia', status') ]_vars

\* the step ends a start attempt in failure: getUserMedia rejected or no
\* recorder could be constructed, or the browser has no getUserMedia at all
StartAttemptFailed ==
  \/ startTasks' = startTasks - 1 /\ Len(recorders') = Len(recorders)
  \/ browser = "no-mic" /\ status # "recording" /\ statusVia' = "recording"

\* C13: a start attempt that fails leaves status error, errorMessage equal to
\* the failure message and the recorder not recording, also when the message
\* is the one of an earlier failure.
C13_StartFailureSurfaces ==
  [][ StartAttemptFailed =>
        /\ permissionError' # Null
        /\ status' = "error"
        /\ errorMessage' = permissionError'
        /\ ~isRecording' ]_vars

\* the step is a submission of the text of the input box
TextSubmitted ==
  /\ Trim(input) # <<>>
  /\ nextTask' = nextTask + 1
  /\ UNCHANGED <<startTasks, stopTasks, recorders>>

\* the step is a click on the record button
RecordClicked ==
  \/ status # "recording" /\ statusVia' = "recording"
  \/ status # "processing" /\ statusVia' = "processing" /\ Issued = {}

CaptureActive == \E r \in 1..Len(recorders) : recorders[r].state = "recording"

\* C14: in status error a submission of non-blank text sends a request and
\* moves the status to processing, and a click on the record button while
\* nothing is being captured moves the status to recording (from where a
\* start that fails goes on to error).
C14_ErrorNotBlocking ==
  [][ status = "error" =>
        /\ TextSubmitted => (Issued # {} /\ status' = "processing")
        /\ (RecordClicked /\ ~CaptureActive) => statusVia' = "recording" ]_vars

\* C15: a success response ends in status idle with errorMessage as it was
\* and one message more, whether auto playback is on or off and whatever the
\* speech sink does.
C15_SpeechNeutral ==
  [][ (delivered' # NoDelivery /\ ResponseOk(delivered'.r)) =>
        /\ status' = "idle"
        /\ errorMessage' = errorMessage
        /\ Len(messages') = Len(messages) + 1 ]_vars

\* the body of a response has no usable text
NoUsableText(body) == ~Has(body, "text") \/ Trim(body.text) = <<>>

\* C16: a success response without usable text appends one assistant message
\* holding the placeholder sentence, sets status idle and leaves errorMessage
\* as it was.
C16_PlaceholderOnEmptyText ==
  [][ (/\ delivered' # NoDelivery
       /\ ResponseOk(delivered'.r)
       /\ NoUsableText(delivered'.r.body)) =>
        /\ messages' = Append(messages, LastMessage(messages'))
        /\ LastMessage(messages').role = "assistant"
        /\ LastMessage(messages').text = Placeholder
        /\ status' = "idle"
        /\ errorMessage' = errorMessage ]_vars

\* a success response with empty text was answered by the placeholder, the
\* speech sink being quiet
C16_Witness ==
  /\ delivered # NoDelivery
  /\ delivered.r.status = 200
  /\ delivered.r.body.text = <<>>
  /\ delivered.speech = "quiet"
  /\ LastMessage(messages).text = Placeholder
  /\ LastMessage(messages).role = "assistant"
  /\ status = "idle"
  /\ errorMessage = Null

C18_EmptySubmitIdles ==
  [][ SubmitEmpty =>
        /\ status' = "idle"
        /\ UNCHANGED <<messages, input, errorMessage, inflight>> ]_vars

\* stream s is in use: a recorder built on it is recording, or has stopped
\* and its stop event is still to be dispatched
InUse(s) ==
  \E r \in 1..Len(recorders) :
    /\ recorders[r].stream = s
    /\ recorders[r].state = "recording" \/ recorders[r].stopQueued

\* the cleanup of useAudioRecorder's mount effect, run at unmount, stops
\* the tracks of the stream mediaStreamRef points to
UnmountStops(s) == s = streamRef

\* C19: at most one acquired stream has live tracks, and a stream has live
\* tracks only while its recording goes on or is being stopped, or while
\* it is the stream the unmount cleanup will stop.
C19_StreamsReleased ==
  /\ Cardinality(liveStreams) <= 1
  /\ \A s \in liveStreams : InUse(s) \/ UnmountStops(s)

\* the stopRecording call of task tid has not returned its capture yet
Stopping(tid) == \E t \in stopTasks : t.tid = tid

\* C20: every stopRecording call that found the recorder recording
\* eventually returns (its capture is finalized, empty or not, or its
\* caller has caught a failure), and the session does not stay in the
\* processing status; a second stop before the first finalization included.
C20_StopCompletes ==
  /\ \A tid \in 1..MaxTasks : Stopping(tid) ~> ~Stopping(tid)
  /\ (status = "processing") ~> (status # "processing")

\* C21: with no GEMINI_API_KEY the route answers every request, whatever
\* its body (a body that is not JSON included), with status 500 and the
\* fixed error string, and sends nothing upstream.
C21_NoKeyFixed500 ==
  (routePc = "done" /\ ~routeEnv.apiKey) =>
    /\ routeResp.status = 500
    /\ routeResp.body = [error |->
         "GEMINI_API_KEY is not configured. Provide an API key to enable live interactions."]
    /\ routeResp.forwarded = <<>>

\* a body that is not JSON was answered without a key
C21_Witness ==
  /\ routePc = "done" /\ ~routeEnv.apiKey
  /\ routeReq = Malformed
  /\ routeResp.status = 500 /\ routeResp.body.error = KeyMissingError

\* the request names no persona
NoPersona(p) == ~Has(p, "modeId") \/ p.modeId = ""

\* the request is an empty submission: no audio, and a prompt that is
\* absent, empty or only whitespace
EmptySubmission(p) ==
  /\ ~Has(p, "audioBase64") \/ p.audioBase64 = <<>>
  /\ ~Has(p, "prompt") \/ Trim(p.prompt) = <<>>

\* C22: with a key configured, a request with no persona id or an empty
\* submission is answered 400 with nothing sent upstream, and every body
\* sent upstream ends with a user turn of at least one part.
C22_RejectsEmpty ==
  (routePc = "done" /\ routeEnv.apiKey /\ routeReq # Malformed) =>
    /\ (NoPersona(routeReq) \/ EmptySubmission(routeReq)) =>
         (routeResp.status = 400 /\ routeResp.forwarded = <<>>)
    /\ \A i \in 1..Len(routeResp.forwarded) :
         LastMessage(routeResp.forwarded[i].contents).parts # <<>>

\* the successful upstream answer parses as a suggestion of the schema
ParsesAsSuggestion(up) ==
  /\ ~JSONParse(RawText(up)).thrown
  /\ JSONParse(RawText(up)).value.json = "object"
  /\ SuggestionFields \subseteq JSONParse(RawText(up)).value.fields

\* C23: given a profile, the design route returns the fallback suggestion
\* with source fallback when no key is configured or the successful
\* upstream answer does not parse as a suggestion of the schema, and
\* source gemini comes only with a suggestion of the schema.
C23_FallbackUnlessSchema ==
  (routePc = "done" /\ Has(routeReq, "profile")) =>
    /\ ( \/ ~routeEnv.apiKey
         \/ routeEnv.upstream.ok /\ ~ParsesAsSuggestion(routeEnv.upstream) ) =>
         /\ routeResp.status = 200
         /\ routeResp.body.source = "fallback"
         /\ routeResp.body.suggestion = fallbackSuggestion(routeReq.profile)
    /\ (routeResp.status = 200 /\ routeResp.body.source = "gemini") =>
         SuggestionFields \subseteq routeResp.body.suggestion.fields

\* C26: whenever status is error, errorMessage holds a message.
C26_ErrorHasMessage == status = "error" => errorMessage # Null

\* a recording attempt failed while a request was in flight, and the
\* console shows the failure
C26_Witness ==
  /\ status = "error"
  /\ errorMessage = DeniedError
  /\ permissionError = DeniedError
  /\ inflight # {}

\* C27: a successful response that is folded in and leaves status idle
\* leaves errorMessage null, also when another request failed while this
\* one was in flight.
C27_IdleClearsError ==
  [][ (delivered' # NoDelivery /\ ResponseOk(delivered'.r) /\ status' = "idle") =>
        errorMessage' = Null ]_vars

\* what is stored when the four values of Home have been written
CurrentText == Stringify(PersistedPayload(modes, connectors, designProfile, activeModeId))

\* the page is being loaded in this step
PageLoads == page = "closed" /\ page' = "open"

\* C24: when the page is loaded and the stored item is missing, empty or not
\* parseable JSON, personas, connectors, design profile and active persona id
\* start as the built-in defaults and the session starts idle with no error
\* message.
C24_DefaultsOnBadBlob ==
  [][ (PageLoads /\ storage \in {MissingItem, EmptyText, CorruptText}) =>
        /\ modes' = defaultModes
        /\ connectors' = defaultConnectors
        /\ designProfile' = defaultDesignProfile
        /\ activeModeId' = defaultModes[1].id
        /\ status' = "idle"
        /\ errorMessage' = Null ]_vars

\* the page has been loaded from an item that JSON.parse rejected, and runs
\* on the defaults
C24_Witness ==
  /\ page = "open"
  /\ StoredStateWarning \in warnings
  /\ modes = defaultModes /\ connectors = defaultConnectors
  /\ designProfile = defaultDesignProfile /\ activeModeId = defaultModes[1].id
  /\ status = "idle" /\ errorMessage = Null
  /\ Len(messages) = 1

\* C25 (as stated): while the page is open the stored item is the
\* serialisation of the current personas, connectors, design profile and
\* active persona id.
C25_StoredEqualsCurrent == page = "open" => storage = CurrentText

\* C25 (amended): while the page is open the stored item is the serialisation
\* of the current four values unless the store refused the write, which the
\* page logs as a warning; and loading an item that is the serialisation of
\* the four values the page was left with restores exactly those values.
C25_StoredUnlessRefused ==
  /\ [](page = "open" =>
          \/ storage = CurrentText
          \/ storageFull /\ PersistWarning \in warnings)
  /\ [][ (PageLoads /\ storage = CurrentText) =>
            UNCHANGED <<modes, connectors, designProfile, activeModeId>> ]_vars

\* the page has been loaded a second time and shows the persona, the
\* connector and the design change made before it was left
C25_Witness ==
  /\ page = "open" /\ ~storageFull
  /\ resets = 0 /\ nextId >= 3
  /\ Len(modes) = Len(defaultModes) + 1
  /\ activeModeId = modes[Len(modes)].id
  /\ Len(connectors) = Len(defaultConnectors) + 1
  /\ connectors[1].status = "active"
  /\ designProfile.layout.density = "cozy"
  /\ storage = CurrentText

DistinctIds(cs) == \A i, j \in 1..Len(cs) : i # j => cs[i].id # cs[j].id

IdsOf(cs) == [i \in 1..Len(cs) |-> cs[i].id]

\* C28: from a connector list with pairwise distinct ids, a creation whose
\* id already exists replaces that connector in place, any other creation
\* puts the new connector at the front, a status toggle (the update the
\* board makes) keeps the list of ids as it is, and the ids stay pairwise
\* distinct.
C28_DistinctIds ==
  /\ [][ \A form \in FormStates :
            (DistinctIds(connectors) /\ CreateConnector(form)) =>
              /\ DistinctIds(connectors')
              /\ IF \E i \in 1..Len(connectors) : connectors[i].id = form.id
                 THEN /\ IdsOf(connectors') = IdsOf(connectors)
                      /\ \A i \in 1..Len(connectors) :
                           connectors[i].id # form.id => connectors'[i] = connectors[i]
                 ELSE /\ connectors'[1].id = form.id
                      /\ Tail(connectors') = connectors ]_vars
  /\ [][ \A i \in ToggleIndices :
            (DistinctIds(connectors) /\ ToggleStatus(i)) =>
              /\ DistinctIds(connectors')
              /\ IdsOf(connectors') = IdsOf(connectors) ]_vars
  /\ [](page = "open" => DistinctIds(connectors))

\* the first default connector was toggled and a connector was then created:
\* it stands at the front, with the defaults behind it in their order
C28_Witness ==
  /\ page = "open"
  /\ Len(connectors) = Len(defaultConnectors) + 1
  /\ connectors[1].id \in NewConnectorIds
  /\ connectors[1].status = "draft"
  /\ connectors[1].capabilities = <<"mail", "search">>
  /\ connectors[2].lastSync = "now"
  /\ IdsOf(Tail(connectors)) = IdsOf(defaultConnectors)
  /\ DistinctIds(connectors)

StatusCycle == { <<"active", "paused">>, <<"paused", "draft">>, <<"draft", "active">> }

\* C29: a toggle steps the status of its connector active -> paused -> draft
\* -> active (a cycle of three, so three toggles restore it), changes nothing
\* of that connector but status and lastSync, and leaves every other
\* connector and the order of the list unchanged.
C29_ToggleCycle ==
  [][ \A i \in ToggleIndices :
        ToggleStatus(i) =>
          /\ Len(connectors') = Len(connectors)
          /\ \A j \in 1..Len(connectors) : j # i => connectors'[j] = connectors[j]
          /\ <<connectors[i].status, connectors'[i].status>> \in StatusCycle
          /\ DOMAIN connectors'[i] = DOMAIN connectors[i]
          /\ \A f \in DOMAIN connectors[i] \ {"status", "lastSync"} :
               connectors'[i][f] = connectors[i][f] ]_vars

\* the first default connector has been toggled three times and is active
\* again, and the second once
C29_Witness ==
  /\ page = "open"
  /\ connectors[1].id = defaultConnectors[1].id
  /\ connectors[1].status = defaultConnectors[1].status
  /\ connectors[1].lastSync = "now"
  /\ connectors[2] = [defaultConnectors[2] EXCEPT !.status = "active", !.lastSync = "now"]
  /\ connectors[3] = defaultConnectors[3]

\* the persona the session talks to: the one with the active id, or the
\* first when no persona has it
ActivePersona(ms, id) ==
  IF \E j \in 1..Len(ms) : ms[j].id = id
  THEN CHOOSE m \in { ms[j] : j \in 1..Len(ms) } : m.id = id
  ELSE ms[1]

SessionFrame == UNCHANGED <<messages, status, errorMessage, activeModeId>>

\* C30: a step that changes a persona other than the active one, the
\* connectors or the design profile leaves messages, status, the error
\* message and the active persona id as they were; and a step that resets
\* the conversation changes neither the connectors nor the design profile
\* nor any persona but the active one.
C30_FrameOfOtherEdits ==
  /\ [][ ( /\ modes' # modes
           /\ Len(modes') = Len(modes)
           /\ ActivePersona(modes', activeModeId) = ActivePersona(modes, activeModeId) )
         => SessionFrame ]_vars
  /\ [][ (connectors' # connectors \/ designProfile' # designProfile) => SessionFrame ]_vars
  /\ [][ resets' # resets =>
            /\ UNCHANGED <<connectors, designProfile>>
            /\ \A j \in 1..Len(modes) :
                 modes[j] # ActivePersona(modes, activeModeId) => modes'[j] = modes[j] ]_vars

\* a failed request has left the session in error with its two messages,
\* and a persona other than the active one, the connectors and the design
\* profile have all been changed since
C30_Witness ==
  /\ status = "error" /\ errorMessage # Null
  /\ Len(messages) = 2 /\ resets = 0
  /\ \E j \in 1..Len(modes) : modes[j].id # activeModeId /\ modes[j].tone = RemixTone
  /\ ActivePersona(modes, activeModeId).tone # RemixTone
  /\ Len(connectors) = Len(defaultConnectors) + 1
  /\ designProfile.layout.density = "cozy"


====
